---- MODULE Spec2Model ----
(***************************************************************************)
(* Model of src/connection/Connection.ts: the per-connection registry of   *)
(* entity metadatas, subscribers, broadcasters and repositories, and the   *)
(* asynchronous connect / close lifecycle.                                 *)
(*                                                                         *)
(* Objects are records carrying an `id`, so that === (identity) is record  *)
(* equality.  The subscriber arrays live in a heap (`arrays`) because a    *)
(* broadcaster keeps a REFERENCE to the array that was current when it was *)
(* constructed; Array.prototype.concat allocates a new array.              *)
(***************************************************************************)
EXTENDS Integers, Sequences, FiniteSets, TLC

\* ------------------------------------------------------------------ bounds
MaxMetadatas   == 2   \* longest metadata sequence explored
MaxBatch       == 2   \* longest argument array of addMetadatas / addSubscribers
MaxSubscribers == 2   \* longest subscriber sequence explored
MaxArrays      == 2   \* subscriber arrays allocated (the initial one and one per addSubscribers call)
MaxConnects    == 2   \* connect() calls explored
MaxCloses      == 1   \* close() calls explored

\* ------------------------------------------------------------ input domains
EntityClasses == {"EntityA", "User", "Post"}

\* EntityMetadata objects a caller may pass; two of them share the target User.
MetadataObjects ==
    { [id |-> 1, target |-> "User"],
      [id |-> 2, target |-> "User"],
      [id |-> 3, target |-> "Post"] }

SubscriberObjects == {"S1", "S2"}

\* ConnectionOptions.autoSchemaCreate: true, false or omitted.
AutoSchemaCreateValues == {"true", "false", "undefined"}

SeqsUpTo(S, n) == UNION { [1..k -> S] : k \in 0..n }

VARIABLES
    metadatas,              \* Connection._metadatas
    arrays,                 \* heap of subscriber arrays, indexed by reference
    subscribers,            \* Connection._subscribers: reference into arrays
    broadcasters,           \* Connection._broadcasters
    repositoryAndMetadatas, \* Connection.repositoryAndMetadatas
    options,                \* Connection._options
    connects,               \* one record per connect() call: its promises
    closes,                 \* one promise state per close() call
    session                 \* the driver's session

vars == <<metadatas, arrays, subscribers, broadcasters, repositoryAndMetadatas,
          options, connects, closes, session>>

registry == <<metadatas, arrays, subscribers, broadcasters, repositoryAndMetadatas>>

\* ------------------------------------------------------------------ helpers
Min(S) == CHOOSE x \in S : \A y \in S : x <= y
Max(S) == CHOOSE x \in S : \A y \in S : x >= y

Undefined == [undefined |-> TRUE]

\* Array.prototype.find: the first element satisfying the predicate, else
\* undefined; hits are the positions of seq whose element satisfies it.
Find(seq, hits) == IF hits = {} THEN Undefined ELSE seq[Min(hits)]

Return(v) == [kind |-> "return", value |-> v]
Throw(name, entityClass) == [kind |-> "throw", error |-> name, entityClass |-> entityClass]

\* ------------------------------------------------------------------ lookups
\* Variant: the last match instead of the first.
GetMetadataLastIn(ms, entityClass) ==
    LET hits == { i \in 1..Len(ms) : ms[i].target = entityClass }
    IN  IF hits = {} THEN Throw("MetadataNotFoundError", entityClass)
        ELSE Return(ms[Max(hits)])

\* getMetadata over a given metadata sequence
GetMetadataIn(ms, entityClass) ==
    LET metadata == Find(ms, { i \in DOMAIN ms : ms[i].target = entityClass })
    IN  IF metadata = Undefined
        THEN Throw("MetadataNotFoundError", entityClass)
        ELSE Return(metadata)

\* Variant: falls back to the first broadcaster instead of throwing.
GetBroadcasterOrDefaultIn(bs, entityClass) ==
    LET metadata == Find(bs, { i \in DOMAIN bs : bs[i].entityClass = entityClass })
    IN  IF metadata = Undefined
        THEN IF bs = <<>> THEN Throw("BroadcasterNotFoundError", entityClass)
                          ELSE Return(bs[1])
        ELSE Return(metadata)

\* getBroadcaster over a given broadcaster sequence
GetBroadcasterIn(bs, entityClass) ==
    LET metadata == Find(bs, { i \in DOMAIN bs : bs[i].entityClass = entityClass })
    IN  IF metadata = Undefined
        THEN Throw("BroadcasterNotFoundError", entityClass)
        ELSE Return(metadata)

\* Variant: a failed metadata lookup is reported as a missing repository.
GetRepositoryOwnErrorIn(ms, rms, entityClass) ==
    LET metadata == Find(ms, { i \in DOMAIN ms : ms[i].target = entityClass })
        repoMeta == Find(rms, { i \in DOMAIN rms : rms[i].metadata = metadata })
    IN  IF metadata = Undefined \/ repoMeta = Undefined
        THEN Throw("RepositoryNotFoundError", entityClass)
        ELSE Return(repoMeta.repository)

\* getRepository over given metadata and pair sequences
GetRepositoryIn(ms, rms, entityClass) ==
    LET got == GetMetadataIn(ms, entityClass)
    IN  IF got.kind = "throw" THEN got
        ELSE LET repoMeta == Find(rms, { i \in DOMAIN rms : rms[i].metadata = got.value })
             IN  IF repoMeta = Undefined
                 THEN Throw("RepositoryNotFoundError", entityClass)
                 ELSE Return(repoMeta.repository)

getMetadata(entityClass)    == GetMetadataIn(metadatas, entityClass)
getBroadcaster(entityClass) == GetBroadcasterIn(broadcasters, entityClass)
getRepository(entityClass)  == GetRepositoryIn(metadatas, repositoryAndMetadatas, entityClass)

\* ------------------------------------------------------------- constructors
\* new OrmBroadcaster(this.subscribers, metadata.target): a fresh object that
\* keeps the reference to the current subscriber array.
createBroadcasterForMetadata(metadata, freshId) ==
    [id |-> freshId, subscribers |-> subscribers, entityClass |-> metadata.target]

\* Variant: the pair takes the metadata that a lookup by target finds.
createRepoMetaFirstMetadata(metadata, bs, freshId) ==
    LET found == IF GetMetadataIn(metadatas, metadata.target).kind = "return"
                 THEN GetMetadataIn(metadatas, metadata.target).value
                 ELSE metadata
    IN  [metadata   |-> found,
         repository |-> [id |-> freshId, metadata |-> found,
                         broadcaster |-> GetBroadcasterIn(bs, metadata.target).value]]

\* Variant: the pair keeps a copy of the metadata, a different object.
createRepoMetaCopy(metadata, bs, freshId) ==
    [metadata   |-> [id |-> metadata.id + 10, target |-> metadata.target],
     repository |-> [id |-> freshId, metadata |-> metadata,
                     broadcaster |-> GetBroadcasterIn(bs, metadata.target).value]]

\* Variant: binds the most recently created broadcaster of the target.
createRepoMetaLatest(metadata, bs, freshId) ==
    [metadata   |-> metadata,
     repository |-> [id |-> freshId, metadata |-> metadata,
                     broadcaster |-> bs[Max({ i \in 1..Len(bs) : bs[i].entityClass = metadata.target })]]]

\* { metadata, repository: new Repository(this, metadata, this.getBroadcaster(metadata.target)) }
\* evaluated when this._broadcasters is bs.
createRepoMeta(metadata, bs, freshId) ==
    [metadata   |-> metadata,
     repository |-> [id |-> freshId, metadata |-> metadata,
                     broadcaster |-> GetBroadcasterIn(bs, metadata.target).value]]

\* Variant: the argument's elements first.
Prepend(array, items) == items \o array

\* Array.prototype.concat: a new array, the receiver's elements then the argument's.
Concat(array, items) == array \o items

\* Variant: Array.prototype.push, which grows the receiver in place.
PushSubscribers(heap, ref, newSubscribers) ==
    [heap |-> [heap EXCEPT ![ref] = @ \o newSubscribers], ref |-> ref]

\* Array.prototype.concat on the subscriber array: allocates a new array and
\* leaves the receiver untouched.  Yields the new heap and the new reference.
ConcatSubscribers(heap, ref, newSubscribers) ==
    [heap |-> Append(heap, Concat(heap[ref], newSubscribers)), ref |-> Len(heap) + 1]

\* ------------------------------------------------------------------- state
Init ==
    /\ metadatas = <<>>
    /\ arrays = << <<>> >>
    /\ subscribers = 1
    /\ broadcasters = <<>>
    /\ repositoryAndMetadatas = <<>>
    /\ options = "unset"
    /\ connects = <<>>
    /\ closes = <<>>
    /\ session = "closed"

lifecycle == <<options, connects, closes, session>>

\* ------------------------------------------------------------ registration
\* addMetadatas: three whole-batch passes.  createRepoMeta runs after
\* this._broadcasters has been reassigned, so getBroadcaster scans old and new
\* broadcasters.  Were getBroadcaster to throw, the third assignment would not
\* happen while the first two stay.
addMetadatas(newMetadatas) ==
    /\ Len(metadatas) + Len(newMetadatas) <= MaxMetadatas
    /\ LET n   == Len(newMetadatas)
           bs  == Concat(broadcasters,
                    [i \in 1..n |-> createBroadcasterForMetadata(newMetadatas[i], Len(broadcasters) + i)])
           bad == { i \in 1..n : GetBroadcasterIn(bs, newMetadatas[i].target).kind = "throw" }
       IN  /\ metadatas' = Concat(metadatas, newMetadatas)
           /\ broadcasters' = bs
           /\ repositoryAndMetadatas' =
                IF bad = {}
                THEN Concat(repositoryAndMetadatas,
                       [i \in 1..n |-> createRepoMeta(newMetadatas[i], bs, Len(repositoryAndMetadatas) + i)])
                ELSE repositoryAndMetadatas
    /\ UNCHANGED <<arrays, subscribers, lifecycle>>

addSubscribers(newSubscribers) ==
    /\ Len(arrays) < MaxArrays
    /\ Len(arrays[subscribers]) + Len(newSubscribers) <= MaxSubscribers
    /\ LET c == ConcatSubscribers(arrays, subscribers, newSubscribers)
       IN  /\ arrays' = c.heap
           /\ subscribers' = c.ref
    /\ UNCHANGED <<metadatas, broadcasters, repositoryAndMetadatas, lifecycle>>

\* ---------------------------------------------------------------- lookups
\* The three lookups assign nothing; their results are the operators
\* getMetadata, getRepository and getBroadcaster above.
GetMetadata(entityClass) ==
    /\ getMetadata(entityClass).kind \in {"return", "throw"}
    /\ UNCHANGED vars

GetRepository(entityClass) ==
    /\ getRepository(entityClass).kind \in {"return", "throw"}
    /\ UNCHANGED vars

\* Variant: a missing broadcaster is created on demand.
GetBroadcasterLazy(entityClass) ==
    /\ broadcasters' =
         IF getBroadcaster(entityClass).kind = "throw"
         THEN Append(broadcasters,
                     [id |-> Len(broadcasters) + 1, subscribers |-> subscribers,
                      entityClass |-> entityClass])
         ELSE broadcasters
    /\ UNCHANGED <<metadatas, arrays, subscribers, repositoryAndMetadatas, lifecycle>>

GetBroadcaster(entityClass) ==
    /\ getBroadcaster(entityClass).kind \in {"return", "throw"}
    /\ UNCHANGED vars

\* --------------------------------------------------------------- lifecycle
Pending == [state |-> "pending", reason |-> "none"]
Fulfilled == [state |-> "fulfilled", reason |-> "none"]
Rejected(reason) == [state |-> "rejected", reason |-> reason]
NotCreated == [state |-> "none", reason |-> "none"]

DriverErrors == {"ConnectionError"}
SchemaErrors == {"SchemaError"}

\* Variant: anything but an explicit false triggers schema creation.
TriggersSchemaCreateUnlessFalse(callOptions) == callOptions # "false"

\* The callback passed to then(): autoSchemaCreate === true decides, on the
\* options of this call, whether schemaCreator.create() is called.
TriggersSchemaCreate(callOptions) == callOptions = "true"

\* The registered metadata of the moment of a connect call is not kept.
NotObserved == <<>>

\* connect(options): constructs the SchemaCreator with a reference to the
\* connection, stores the options, calls driver.connect(options) and returns
\* promise.then(callback); nothing else happens synchronously.  The record of
\* the call can keep, as history, the metadata sequence as it stood at the
\* call (registeredAtCall); schemaRead is the sequence schema creation read.
ConnectCall(callOptions, atCall) ==
    /\ Len(connects) < MaxConnects
    /\ options' = callOptions
    /\ connects' = Append(connects,
          [options |-> callOptions, driver |-> Pending, schema |-> NotCreated,
           schemaCreates |-> 0, outcome |-> Pending,
           registeredAtCall |-> atCall, schemaRead |-> NotObserved])
    /\ UNCHANGED <<registry, closes, session>>

connect(callOptions) == ConnectCall(callOptions, NotObserved)

\* The same call, keeping the history of what was registered at the call.
connectObserved(callOptions) == ConnectCall(callOptions, metadatas)

\* The driver settles the promise returned by driver.connect.
DriverConnectResolves(c) ==
    /\ connects[c].driver = Pending
    /\ connects' = [connects EXCEPT ![c].driver = Fulfilled]
    /\ session' = "open"
    /\ UNCHANGED <<registry, options, closes>>

DriverConnectRejects(c, e) ==
    /\ connects[c].driver = Pending
    /\ connects' = [connects EXCEPT ![c].driver = Rejected(e)]
    /\ UNCHANGED <<registry, options, closes, session>>

\* Variant: the callback reads autoSchemaCreate from this._options.
StoredOptions(c) == options

\* The callback closes over the `options` parameter of its own connect call.
CallbackOptions(c) == connects[c].options

\* Variant: the schema creator works on the metadata registered when it was
\* constructed, at the connect call.
SchemaCreatorReadsSnapshot(c) == connects[c].registeredAtCall

\* SchemaCreator.create(): the creator holds a reference to the connection and
\* reads its metadata sequence when create() is called.
SchemaCreatorReads(c) == metadatas

\* The reaction of then() to a fulfilled driver promise: the callback runs.
\* `read` is what the record keeps of the metadata schema creation reads.
CallbackRuns(c, read) ==
    /\ connects[c].driver = Fulfilled
    /\ connects[c].outcome = Pending
    /\ connects[c].schema = NotCreated
    /\ connects' =
         IF TriggersSchemaCreate(CallbackOptions(c))
         THEN [connects EXCEPT ![c].schema = Pending,
                               ![c].schemaCreates = @ + 1,
                               ![c].schemaRead = read]
         ELSE [connects EXCEPT ![c].outcome = Fulfilled]
    /\ UNCHANGED <<registry, options, closes, session>>

ConnectCallback(c) == CallbackRuns(c, NotObserved)

\* The same reaction, keeping the history of what schema creation read.
ConnectCallbackObserved(c) == CallbackRuns(c, SchemaCreatorReads(c))

\* Variant: every failure is reported as a ConnectionError.
WrapAsConnectionError(reason) == Rejected("ConnectionError")

\* then() was given no rejection handler: the rejection passes through.
PassThrough(reason) == Rejected(reason)

ConnectRejectionPassesThrough(c) ==
    /\ connects[c].driver.state = "rejected"
    /\ connects[c].outcome = Pending
    /\ connects' = [connects EXCEPT ![c].outcome = PassThrough(connects[c].driver.reason)]
    /\ UNCHANGED <<registry, options, closes, session>>

\* The promise returned by schemaCreator.create() settles; the promise returned
\* by connect follows it.
SchemaCreateResolves(c) ==
    /\ connects[c].schema = Pending
    /\ connects' = [connects EXCEPT ![c].schema = Fulfilled, ![c].outcome = Fulfilled]
    /\ UNCHANGED <<registry, options, closes, session>>

SchemaCreateRejects(c, e) ==
    /\ connects[c].schema = Pending
    /\ connects' = [connects EXCEPT ![c].schema = Rejected(e), ![c].outcome = PassThrough(e)]
    /\ UNCHANGED <<registry, options, closes, session>>

\* Variant: close also empties the registry.
closeAndClear ==
    /\ Len(closes) < MaxCloses
    /\ closes' = Append(closes, Pending)
    /\ metadatas' = <<>>
    /\ broadcasters' = <<>>
    /\ repositoryAndMetadatas' = <<>>
    /\ UNCHANGED <<arrays, subscribers, options, connects, session>>

\* close(): returns driver.disconnect().
close ==
    /\ Len(closes) < MaxCloses
    /\ closes' = Append(closes, Pending)
    /\ UNCHANGED <<registry, options, connects, session>>

DriverDisconnectResolves(k) ==
    /\ closes[k] = Pending
    /\ closes' = [closes EXCEPT ![k] = Fulfilled]
    /\ session' = "closed"
    /\ UNCHANGED <<registry, options, connects>>

DriverDisconnectRejects(k, e) ==
    /\ closes[k] = Pending
    /\ closes' = [closes EXCEPT ![k] = Rejected(e)]
    /\ UNCHANGED <<registry, options, connects, session>>

Next ==
    \/ \E b \in SeqsUpTo(MetadataObjects, MaxBatch) : addMetadatas(b)
    \/ \E s \in SeqsUpTo(SubscriberObjects, MaxBatch) : addSubscribers(s)
    \/ \E e \in EntityClasses : GetMetadata(e)
    \/ \E e \in EntityClasses : GetRepository(e)
    \/ \E e \in EntityClasses : GetBroadcaster(e)
    \/ \E o \in AutoSchemaCreateValues : connect(o)
    \/ \E c \in DOMAIN connects : DriverConnectResolves(c)
    \/ \E c \in DOMAIN connects : \E e \in DriverErrors : DriverConnectRejects(c, e)
    \/ \E c \in DOMAIN connects : ConnectCallback(c)
    \/ \E c \in DOMAIN connects : ConnectRejectionPassesThrough(c)
    \/ \E c \in DOMAIN connects : SchemaCreateResolves(c)
    \/ \E c \in DOMAIN connects : \E e \in SchemaErrors : SchemaCreateRejects(c, e)
    \/ close
    \/ \E k \in DOMAIN closes : DriverDisconnectResolves(k)
    \/ \E k \in DOMAIN closes : \E e \in DriverErrors : DriverDisconnectRejects(k, e)

Spec == Init /\ [][Next]_vars

\* The connect calls interleaved with registrations, with the history of what
\* was registered at each call and of what each schema creation read.
NextObserved ==
    \/ \E b \in SeqsUpTo(MetadataObjects, MaxBatch) : addMetadatas(b)
    \/ \E o \in AutoSchemaCreateValues : connectObserved(o)
    \/ \E c \in DOMAIN connects : DriverConnectResolves(c)
    \/ \E c \in DOMAIN connects : \E e \in DriverErrors : DriverConnectRejects(c, e)
    \/ \E c \in DOMAIN connects : ConnectCallbackObserved(c)
    \/ \E c \in DOMAIN connects : ConnectRejectionPassesThrough(c)
    \/ \E c \in DOMAIN connects : SchemaCreateResolves(c)
    \/ \E c \in DOMAIN connects : \E e \in SchemaErrors : SchemaCreateRejects(c, e)

SpecObserved == Init /\ [][NextObserved]_vars

\* ================================================================== claims
Batches == SeqsUpTo(MetadataObjects, MaxBatch)
SubscriberBatches == SeqsUpTo(SubscriberObjects, MaxBatch)

\* What a broadcaster sees through the array reference it holds.
SubscriberView(broadcaster) == arrays[broadcaster.subscribers]

IsPrefix(s, t) == Len(s) <= Len(t) /\ SubSeq(t, 1, Len(s)) = s

Registered(entityClass) == \E i \in DOMAIN metadatas : metadatas[i].target = entityClass

\* C1: frozen snapshot.  In every step, each broadcaster that exists keeps the
\* subscriber view it had (same elements, same order), and each broadcaster
\* the step creates sees exactly the subscriber sequence as it stood when the
\* step began.
C1_FrozenSnapshot ==
    [][ /\ \A i \in DOMAIN broadcasters :
              arrays'[broadcasters[i].subscribers] = SubscriberView(broadcasters[i])
        /\ \A i \in DOMAIN broadcasters' :
              i > Len(broadcasters) =>
                  arrays'[broadcasters'[i].subscribers] = arrays[subscribers] ]_vars

\* C1 witness: an earlier broadcaster still sees a shorter sequence while a
\* later one sees the current, non-empty one.
C1_Witness ==
    \E i, j \in DOMAIN broadcasters :
        /\ i < j
        /\ SubscriberView(broadcasters[i]) # arrays[subscribers]
        /\ SubscriberView(broadcasters[j]) = arrays[subscribers]
        /\ Len(arrays[subscribers]) = 2

\* C2 (as claimed): the repository at position i holds the broadcaster at
\* position i, also when the target was registered before.
C2_RepositoryHoldsOwnBroadcaster ==
    \A i \in DOMAIN repositoryAndMetadatas :
        /\ i \in DOMAIN broadcasters
        /\ repositoryAndMetadatas[i].repository.broadcaster = broadcasters[i]

\* C3 (as claimed): for an entity class without registered metadata,
\* getRepository fails with RepositoryNotFoundError carrying the class.
C3_RepositoryNotFound ==
    \A e \in EntityClasses :
        ~Registered(e) => getRepository(e) = Throw("RepositoryNotFoundError", e)

\* C3 (amended): for an entity class without registered metadata,
\* getRepository fails with MetadataNotFoundError carrying the class.
C3_MetadataNotFound ==
    \A e \in EntityClasses :
        ~Registered(e) => getRepository(e) = Throw("MetadataNotFoundError", e)

\* C3 witness: other metadata is registered, EntityA is not, and the lookup fails.
C3_Witness ==
    /\ Len(metadatas) = 2
    /\ ~Registered("EntityA")
    /\ getRepository("EntityA").kind = "throw"

\* C4: for every entity class that was never the target of registered
\* metadata, getMetadata fails with MetadataNotFoundError and getBroadcaster
\* with BroadcasterNotFoundError, each carrying the class.
C4_NotFoundErrors ==
    \A e \in EntityClasses :
        ~Registered(e) =>
            /\ getMetadata(e) = Throw("MetadataNotFoundError", e)
            /\ getBroadcaster(e) = Throw("BroadcasterNotFoundError", e)

\* C4 witness: Post is registered, a connect has completed and a close was
\* issued, and User still has no metadata and no broadcaster.
C4_Witness ==
    /\ Registered("Post")
    /\ ~Registered("User")
    /\ getBroadcaster("User").kind = "throw"
    /\ \E c \in DOMAIN connects : connects[c].outcome.state = "fulfilled"
    /\ closes # <<>>

\* C5 (as claimed): after addMetadatas([M]) in any state, getMetadata(M.target)
\* returns M.
C5_ReturnsRegistered ==
    [][ \A M \in MetadataObjects :
            addMetadatas(<<M>>) => GetMetadataIn(metadatas', M.target) = Return(M) ]_vars

\* C5 (amended): after addMetadatas([M]), getMetadata(M.target) returns M when
\* no metadata with that target was registered before the call, and otherwise
\* still returns the metadata it returned before the call.
C5_ReturnsFirstRegistered ==
    [][ \A M \in MetadataObjects :
            addMetadatas(<<M>>) =>
                GetMetadataIn(metadatas', M.target) =
                    IF Registered(M.target) THEN getMetadata(M.target) ELSE Return(M) ]_vars

\* C5 witness: a second, different metadata of an already registered target.
C5_Witness ==
    /\ Len(metadatas) = 2
    /\ metadatas[1].target = metadatas[2].target
    /\ metadatas[1] # metadatas[2]
    /\ getMetadata(metadatas[2].target) = Return(metadatas[1])

\* C6: for every entity class with registered metadata, the repository that
\* getRepository returns holds the very broadcaster that getBroadcaster returns.
C6_RepositoryBroadcaster ==
    \A e \in EntityClasses :
        Registered(e) =>
            /\ getRepository(e).kind = "return"
            /\ getBroadcaster(e).kind = "return"
            /\ getRepository(e).value.broadcaster = getBroadcaster(e).value

\* C6 witness: the target has been registered twice.
C6_Witness ==
    /\ Len(metadatas) = 2
    /\ metadatas[1].target = metadatas[2].target
    /\ getRepository(metadatas[1].target).value.broadcaster = broadcasters[1]

\* First-registered-wins: the lookups of a target return the objects at the
\* position of the first metadata registered with that target.
FirstRegisteredWins ==
    \A i \in DOMAIN metadatas :
        (\A j \in 1..(i - 1) : metadatas[j].target # metadatas[i].target) =>
            /\ getMetadata(metadatas[i].target) = Return(metadatas[i])
            /\ getRepository(metadatas[i].target) = Return(repositoryAndMetadatas[i].repository)
            /\ getBroadcaster(metadatas[i].target) = Return(broadcasters[i])

\* A lookup that returned a value returns the same object after the step.  The
\* lookups read only the three sequences, so a step that leaves all three as
\* they are needs no comparison.
LookupsStable ==
    \/ <<metadatas, broadcasters, repositoryAndMetadatas>>' =
          <<metadatas, broadcasters, repositoryAndMetadatas>>
    \/ \A e \in EntityClasses :
          /\ getMetadata(e).kind = "return" =>
                GetMetadataIn(metadatas', e) = getMetadata(e)
          /\ getRepository(e).kind = "return" =>
                GetRepositoryIn(metadatas', repositoryAndMetadatas', e) = getRepository(e)
          /\ getBroadcaster(e).kind = "return" =>
                GetBroadcasterIn(broadcasters', e) = getBroadcaster(e)

\* C7: first-registered-wins in every state, and every lookup that has
\* returned a value keeps returning that object across every step.
C7_FirstWinsAndStable == []FirstRegisteredWins /\ [][LookupsStable]_vars

\* C7 witness: two different metadatas of one target, registered while a
\* connect is in flight.
C7_Witness ==
    /\ Len(metadatas) = 2
    /\ metadatas[1].target = metadatas[2].target
    /\ metadatas[1].id # metadatas[2].id
    /\ getRepository(metadatas[2].target) = Return(repositoryAndMetadatas[1].repository)
    /\ connects # <<>>

SchemaCreateOrder ==
    \A c \in DOMAIN connects :
        LET r == connects[c] IN
        /\ r.schemaCreates \in {0, 1}
        /\ r.schemaCreates > 0 => r.driver = Fulfilled /\ r.options = "true"
        /\ r.schema # NotCreated <=> r.schemaCreates = 1
        /\ (r.options = "true" /\ r.outcome = Fulfilled) =>
              r.schemaCreates = 1 /\ r.schema = Fulfilled
        /\ (r.options # "true" /\ r.outcome = Fulfilled) => r.driver = Fulfilled

\* A step that triggers schema creation starts from a fulfilled driver promise.
SchemaCreateAfterSession ==
    \A c \in DOMAIN connects :
        connects'[c].schemaCreates > connects[c].schemaCreates =>
            connects[c].driver = Fulfilled /\ connects[c].options = "true"

\* C9: schema creation is triggered only after the driver session is
\* established, never when autoSchemaCreate is false or omitted, exactly once
\* when it is true, and connect completes only after schema creation does.
C9_SchemaCreation == []SchemaCreateOrder /\ [][SchemaCreateAfterSession]_vars

\* C9 witness: calls with true, false and omitted autoSchemaCreate have completed.
C9_Witness ==
    /\ Len(connects) = 2
    /\ connects[1].options = "true" /\ connects[1].outcome = Fulfilled
    /\ connects[1].schemaCreates = 1
    /\ connects[2].options = "undefined" /\ connects[2].outcome = Fulfilled
    /\ connects[2].schemaCreates = 0

\* Per connect call: after the driver promise is rejected, schema creation is
\* never triggered and the call is pending or rejected with the driver's
\* reason; after the schema promise is rejected the call is rejected with the
\* schema creator's reason.
FailureOutcome ==
    \A c \in DOMAIN connects :
        LET r == connects[c] IN
        /\ r.driver.state = "rejected" =>
              /\ r.schemaCreates = 0
              /\ r.schema = NotCreated
              /\ r.outcome \in {Pending, Rejected(r.driver.reason)}
        /\ r.schema.state = "rejected" => r.outcome = Rejected(r.schema.reason)

\* A connect call returns a pending promise, and no step of a connect call
\* changes the registry.
ConnectFrame ==
    /\ Len(connects') > Len(connects) => connects'[Len(connects')].outcome = Pending
    /\ connects' # connects => registry' = registry

\* C10: a failed session makes connect's promise rejected with the driver's
\* error and never triggers schema creation; a failed schema creation makes it
\* rejected with that failure; the registry sequences are unchanged.
C10_ConnectFailure == []FailureOutcome /\ [][ConnectFrame]_vars

\* C10 witness: one call rejected by the driver with autoSchemaCreate true,
\* another rejected by schema creation.
C10_Witness ==
    \E c, d \in DOMAIN connects :
        /\ connects[c].options = "true"
        /\ connects[c].driver = Rejected("ConnectionError")
        /\ connects[c].outcome = Rejected("ConnectionError")
        /\ connects[d].schema = Rejected("SchemaError")
        /\ connects[d].outcome = Rejected("SchemaError")
        /\ metadatas # <<>>

\* Every lookup gives after the step what it gives before it.  The lookups
\* read only the three sequences, so a step that leaves all three as they are
\* needs no comparison.
LookupsUnchanged ==
    \/ <<metadatas, broadcasters, repositoryAndMetadatas>>' =
          <<metadatas, broadcasters, repositoryAndMetadatas>>
    \/ \A e \in EntityClasses :
          /\ GetMetadataIn(metadatas', e) = getMetadata(e)
          /\ GetRepositoryIn(metadatas', repositoryAndMetadatas', e) = getRepository(e)
          /\ GetBroadcasterIn(broadcasters', e) = getBroadcaster(e)

\* C11: every step of a close call (the call, and the settling of the
\* driver's disconnect promise either way) leaves the metadata, broadcaster,
\* pair and subscriber sequences and the stored options unchanged, and every
\* lookup gives the same result after it as before it.
C11_CloseFrame ==
    [][ closes' # closes =>
            /\ registry' = registry
            /\ options' = options
            /\ connects' = connects
            /\ LookupsUnchanged ]_vars

\* C11 witness: a close has succeeded on a connection with two metadatas
\* whose session had been established.
C11_Witness ==
    /\ Len(metadatas) = 2
    /\ \E k \in DOMAIN closes : closes[k] = Fulfilled
    /\ \E c \in DOMAIN connects : connects[c].driver = Fulfilled
    /\ session = "closed"

\* C12: a step of getMetadata, getRepository or getBroadcaster, returning or
\* throwing, leaves the four sequences, the stored options, the connect and
\* close promises and the driver session unchanged, and the lookups give the
\* same results after it.
C12_LookupsPure ==
    [][ (\E e \in EntityClasses : GetMetadata(e) \/ GetRepository(e) \/ GetBroadcaster(e)) =>
            /\ registry' = registry
            /\ lifecycle' = lifecycle
            /\ LookupsUnchanged ]_vars

\* C12 witness: a state in which the lookups of User return and those of Post throw.
C12_Witness ==
    /\ getRepository("User").kind = "return"
    /\ getBroadcaster("User").kind = "return"
    /\ getMetadata("Post").kind = "throw"
    /\ getBroadcaster("Post").kind = "throw"
    /\ session = "open"

\* C13: the metadata, broadcaster and pair sequences have equal length; at
\* every position the pair holds the metadata of that position and the
\* broadcaster is bound to its target; the broadcasters and the repositories
\* are pairwise different objects.
C13_IndexAligned ==
    /\ Len(broadcasters) = Len(metadatas)
    /\ Len(repositoryAndMetadatas) = Len(metadatas)
    /\ \A i \in DOMAIN metadatas :
          /\ repositoryAndMetadatas[i].metadata = metadatas[i]
          /\ repositoryAndMetadatas[i].repository.metadata = metadatas[i]
          /\ broadcasters[i].entityClass = metadatas[i].target
    /\ \A i, j \in DOMAIN metadatas :
          i # j => /\ broadcasters[i] # broadcasters[j]
                   /\ repositoryAndMetadatas[i].repository # repositoryAndMetadatas[j].repository

\* C13 witness: two different metadatas of one target have been registered.
C13_Witness ==
    /\ Len(metadatas) = 2
    /\ metadatas[1].target = metadatas[2].target
    /\ metadatas[1].id < metadatas[2].id
    /\ repositoryAndMetadatas[2].metadata = metadatas[2]

\* C14: getRepository never fails with RepositoryNotFoundError; it returns
\* whenever getMetadata returns, and getBroadcaster returns exactly when
\* getMetadata returns.
C14_RepositoryNotFoundUnreachable ==
    \A e \in EntityClasses :
        /\ getRepository(e) # Throw("RepositoryNotFoundError", e)
        /\ getMetadata(e).kind = "return" => getRepository(e).kind = "return"
        /\ getBroadcaster(e).kind = "return" <=> getMetadata(e).kind = "return"

\* C14 witness: User and Post are registered, a connect has failed and a
\* close was issued, and getRepository returns for both.
C14_Witness ==
    /\ getRepository("User").kind = "return"
    /\ getRepository("Post").kind = "return"
    /\ \E c \in DOMAIN connects : connects[c].outcome.state = "rejected"
    /\ closes # <<>>

\* addMetadatas([m]) applied to the three sequences st.
SingleRegistration(st, m) ==
    LET ms  == Concat(st[1], <<m>>)
        bs  == Concat(st[2], <<createBroadcasterForMetadata(m, Len(st[2]) + 1)>>)
        rms == Concat(st[3], <<createRepoMeta(m, bs, Len(st[3]) + 1)>>)
    IN  <<ms, bs, rms>>

RECURSIVE OneAtATime(_, _)
\* addMetadatas([m1]); ...; addMetadatas([mn]) applied to the three sequences st.
OneAtATime(st, batch) ==
    IF batch = <<>> THEN st
    ELSE OneAtATime(SingleRegistration(st, Head(batch)), Tail(batch))

\* C15: a step addMetadatas(batch) yields the metadata, broadcaster and pair
\* sequences (with the broadcasters' subscriber arrays and the repositories'
\* broadcasters) that registering the entries one at a time in batch order
\* yields, and addMetadatas([]) changes nothing.
C15_BatchIsOneAtATime ==
    [][ \A b \in Batches :
            addMetadatas(b) =>
                /\ <<metadatas', broadcasters', repositoryAndMetadatas'>> =
                       OneAtATime(<<metadatas, broadcasters, repositoryAndMetadatas>>, b)
                /\ \A i \in DOMAIN broadcasters' :
                       arrays'[broadcasters'[i].subscribers] =
                       arrays[OneAtATime(<<metadatas, broadcasters, repositoryAndMetadatas>>, b)[2][i].subscribers]
                /\ b = <<>> => registry' = registry ]_vars

\* C15 witness: a batch of two metadatas of one target was registered after a
\* subscriber had been added.
C15_Witness ==
    /\ Len(metadatas) = 2
    /\ metadatas[1].target = metadatas[2].target
    /\ broadcasters[1].subscribers = broadcasters[2].subscribers
    /\ SubscriberView(broadcasters[2]) # <<>>
    /\ repositoryAndMetadatas[2].repository.broadcaster = broadcasters[1]

\* C16: a step addSubscribers leaves the metadata, broadcaster and pair
\* sequences, the subscriber view of every existing broadcaster, the stored
\* options, the connect and close promises and the driver session unchanged;
\* a step addMetadatas leaves the subscriber sequence, the stored options,
\* the promises and the driver session unchanged.
C16_RegistrationFrame ==
    [][ /\ \A s \in SubscriberBatches :
              addSubscribers(s) =>
                  /\ metadatas' = metadatas
                  /\ broadcasters' = broadcasters
                  /\ repositoryAndMetadatas' = repositoryAndMetadatas
                  /\ \A i \in DOMAIN broadcasters :
                        arrays'[broadcasters[i].subscribers] = SubscriberView(broadcasters[i])
                  /\ lifecycle' = lifecycle
        /\ \A b \in Batches :
              addMetadatas(b) =>
                  /\ arrays'[subscribers'] = arrays[subscribers]
                  /\ lifecycle' = lifecycle ]_vars

\* C16 witness: with the session open, a subscriber was added after a
\* broadcaster had been created, and a second broadcaster after that.
C16_Witness ==
    /\ Len(broadcasters) = 2
    /\ SubscriberView(broadcasters[1]) = <<>>
    /\ Len(SubscriberView(broadcasters[2])) = 1
    /\ session = "open"

\* The options view is that of the most recent connect call, and a call whose
\* callback has run has triggered schema creation exactly if its own
\* autoSchemaCreate is true.
OwnOptionsDecide ==
    /\ options = IF connects = <<>> THEN "unset" ELSE connects[Len(connects)].options
    /\ \A c \in DOMAIN connects :
          LET r == connects[c] IN
          (r.schema # NotCreated \/ r.outcome = Fulfilled) =>
              (r.schemaCreates = 1 <=> r.options = "true")

\* Only a connect call changes the stored options, and it stores its own.
OptionsStoredAtCall ==
    options' # options =>
        /\ Len(connects') = Len(connects) + 1
        /\ options' = connects'[Len(connects')].options

\* C17: with several connect calls, each call decides on schema creation from
\* its own options; the options view is that of the most recent call, stored
\* at the call and kept when the session fails.
C17_OwnOptions == []OwnOptionsDecide /\ [][OptionsStoredAtCall]_vars

\* C17 witness: the first call (true) has triggered schema creation although
\* the stored options are those of the second call (false), whose session failed.
C17_Witness ==
    /\ Len(connects) = 2
    /\ connects[1].options = "true"
    /\ connects[1].schemaCreates = 1
    /\ connects[2].options = "false"
    /\ connects[2].outcome = Rejected("ConnectionError")
    /\ options = "false"

\* What schema creation read extends what was registered at the connect call
\* and is part of what is registered now.
SchemaReadBetween ==
    \A c \in DOMAIN connects :
        connects[c].schema # NotCreated =>
            /\ IsPrefix(connects[c].registeredAtCall, connects[c].schemaRead)
            /\ IsPrefix(connects[c].schemaRead, metadatas)

\* The step that triggers schema creation makes it read the metadata
\* registered at that step.
SchemaReadsCurrent ==
    \A c \in DOMAIN connects :
        connects'[c].schemaCreates > connects[c].schemaCreates =>
            connects'[c].schemaRead = metadatas

\* C18: schema creation reads the metadata registered when the callback of the
\* established session runs, which includes the metadata added between the
\* connect call and the completion of the session.
C18_SchemaReadsLateMetadata == []SchemaReadBetween /\ [][SchemaReadsCurrent]_vars

\* C18 witness: nothing was registered at the connect call, and schema
\* creation read two metadatas.
C18_Witness ==
    \E c \in DOMAIN connects :
        /\ connects[c].schemaCreates = 1
        /\ connects[c].registeredAtCall = <<>>
        /\ Len(connects[c].schemaRead) = 2
====
